---- MODULE Spec2Model ----
(***************************************************************************)
(* Model of llvm/lib/Target/X86/X86PreserveNoneFuncList.cpp:               *)
(*   - X86PreserveNoneInfectionPass::runOnModule   (the propagation engine)*)
(*   - X86PreserveNonePass::WritePreserveNoneList  (the registry writer)   *)
(*   - X86PreserveNonePass::LoadPreserveNoneList   (the registry loader)   *)
(*   - X86PreserveNonePass::runOnMachineFunction   (the per-function hook) *)
(* The engine is checked under SpecInfect, the registry under SpecReg.     *)
(***************************************************************************)
EXTENDS Integers, Sequences, FiniteSets, TLC

\* ------------------------------------------------------------------ bounds
\* Largest number of uses (call sites, address-taking instructions) in a module.
MaxUses == 2
\* Number of times runOnModule is invoked in one process.
MaxRuns == 2

VARIABLES
  \* ---- the Module given to runOnModule
  fn,                       \* Function -> [isDeclaration, linkage, hasMF]
  attr,                     \* Function -> hasPreserveNoneAttr(F)
  uses,                     \* the use records of the module (a bag, kept sorted)
  PreserveNoneInfect,       \* cl::opt -x86-preserve-none-infect
  \* ---- X86PreserveNoneInfectionPass::runOnModule
  ipc,                      \* "idle" | "loop" | "done" | "abort"
  MFWorkList,               \* std::deque<MachineFunction *>
  VisitedMF,                \* std::set<MachineFunction *>
  NumPreserveNoneInfected,  \* STATISTIC, one counter per process
  iret,                     \* value returned by the run, once ipc = "done"
  runs,                     \* number of runs started in this process
  entryAttr,                \* history: attr at entry of the current run
  ranLoop,                  \* history: the current run got past the option test
  visits                    \* history: Function -> times it passed the visited check

ivars == <<fn, attr, uses, PreserveNoneInfect, ipc, MFWorkList, VisitedMF,
           NumPreserveNoneInfected, iret, runs, entryAttr, ranLoop, visits>>

VARIABLES
  \* ---- the Registry File and the processes that share it
  pathKind,                 \* what the registry path names: "absent" | "regular" | "directory"
  file,                     \* bytes of the Registry File
  file0,                    \* history: bytes of the file before any process ran
  lockOwner,                \* process holding the fcntl write lock on the file
  opt,                      \* process -> [write, load]: which path option is not "-"
  \* ---- X86PreserveNonePass, one object per process
  FuncNameSet,              \* process -> std::set<std::string>
  FD,                       \* process -> int FD
  fdAssigned,               \* process -> FD has been assigned (the constructor does not)
  openFds,                  \* process -> descriptors the process has open
  fattr,                    \* process -> names of its Functions carrying the attribute
  wpc,                      \* process -> position inside WritePreserveNoneList
  cur,                      \* process -> Function the running Writer call is for
  buf,                      \* process -> bytes buffered in the raw_fd_ostream fds
  pendingRet,               \* process -> value the running Writer call will return
  calls,                    \* process -> number of hook calls and destructions made
  torn,                     \* process -> what ~X86PreserveNonePass did, "live" before it
  \* ---- history of the calls
  lastFn,                   \* process -> Function of the last finished hook call
  lastRet,                  \* process -> its return value
  lastDup,                  \* process -> its name was in FuncNameSet at entry
  lastWrote,                \* process -> bytes the last/running Writer call put in the file
  linesBy,                  \* process -> name -> Writer calls that wrote bytes for it
  callsFor,                 \* process -> name -> finished Writer calls for it
  loads,                    \* process -> times the Loader read the registry path
  setAtLoad                 \* process -> FuncNameSet after the first Loader attempt

rvars == <<pathKind, file, file0, lockOwner, opt, FuncNameSet, FD, fdAssigned, openFds, fattr,
           wpc, cur, buf, pendingRet, calls, torn, lastFn, lastRet, lastDup, lastWrote,
           linesBy, callsFor, loads, setAtLoad>>

vars == <<ivars, rvars>>

\* ------------------------------------------------------------ the Module
\* Functions of the module; names stand for the Function objects and, in the
\* worklist, for their MachineFunction objects.
FuncSeq == <<"A", "B", "C">>
Funcs == {FuncSeq[i] : i \in 1..Len(FuncSeq)}
NullMF == "nullptr"

\* What a user of a Function's address is: the call instruction that calls it,
\* a call instruction that passes it as an argument (still a CallBase), or an
\* instruction that is no CallBase at all (a store of the address).
KindSeq == <<"callee", "arg", "value">>

\* The kinds of Function the module is drawn from: declarations, an attributed
\* definition (a seed), and definitions of each linkage class the eligibility
\* test tells apart.  available_externally definitions have a body but never
\* get a MachineFunction.
ShapeSeq == <<
  [isDeclaration |-> TRUE,  linkage |-> "external", hasMF |-> FALSE, seed |-> FALSE],
  [isDeclaration |-> TRUE,  linkage |-> "external", hasMF |-> FALSE, seed |-> TRUE],
  [isDeclaration |-> FALSE, linkage |-> "external", hasMF |-> TRUE,  seed |-> TRUE],
  [isDeclaration |-> FALSE, linkage |-> "internal", hasMF |-> TRUE,  seed |-> FALSE],
  [isDeclaration |-> FALSE, linkage |-> "weak",     hasMF |-> TRUE,  seed |-> FALSE],
  [isDeclaration |-> FALSE, linkage |-> "external", hasMF |-> TRUE,  seed |-> FALSE],
  [isDeclaration |-> FALSE, linkage |-> "available_externally",
                                                     hasMF |-> FALSE, seed |-> FALSE] >>

NumUseRecs == Len(FuncSeq) * Len(KindSeq) * Len(FuncSeq)

\* The i-th use record: Function `callee` is used, in the way `kind`, by an
\* instruction of Function `in`.
UseRec(i) ==
  [callee |-> FuncSeq[(i \div (Len(KindSeq) * Len(FuncSeq))) + 1],
   kind   |-> KindSeq[((i \div Len(FuncSeq)) % Len(KindSeq)) + 1],
   in     |-> FuncSeq[(i % Len(FuncSeq)) + 1]]

RECURSIVE SortedFrom(_, _)
SortedFrom(n, lo) ==
  IF n = 0 THEN {<<>>}
  ELSE UNION { { <<i>> \o s : s \in SortedFrom(n - 1, i) } : i \in lo..(NumUseRecs - 1) }

\* Every bag of at most MaxUses use records, as a sorted sequence of indices.
UseLists == UNION { SortedFrom(n, 0) : n \in 0..MaxUses }

Perms(n) == { p \in [1..n -> 1..n] : \A i, j \in 1..n : p[i] = p[j] => i = j }

\* F.users(): the users of F, one entry per use.
users(F) == SelectSeq(uses, LAMBDA u : u.callee = F)

\* isa<CallBase>(U)
isaCallBase(U) == U.kind \in {"callee", "arg"}

\* MMI.getMachineFunction(F)
getMachineFunction(F) == IF fn[F].hasMF THEN F ELSE NullMF

isWeakForLinker(F) == fn[F].linkage = "weak"
hasLocalLinkage(F) == fn[F].linkage = "internal"
isDeclaration(F) == fn[F].isDeclaration

isInfectableFunc(F) ==
  ~isWeakForLinker(F) /\ hasLocalLinkage(F) /\ ~isDeclaration(F)

hasPreserveNoneAttr(F) == attr[F]

\* The test of lines 159-163 that stops the expansion at F.
stopsAt(F) ==
  ~hasPreserveNoneAttr(F)
  /\ (~isInfectableFunc(F) \/ \E i \in 1..Len(users(F)) : ~isaCallBase(users(F)[i]))

\* CB->getCaller(): the Function holding the user instruction.
getCaller(U) == U.in

\* Mutant of pushed: the loop over the users stops after its first push.
pushedFirstOnly(us, visited) ==
  LET keep == SelectSeq(us, LAMBDA u :
                  getMachineFunction(getCaller(u)) \notin visited
                  /\ ~hasPreserveNoneAttr(getCaller(u)))
  IN IF keep = <<>> THEN <<>> ELSE <<getMachineFunction(getCaller(keep[1]))>>

\* Lines 166-175 over the users in the order `us`: the MachineFunctions pushed.
pushed(us, visited) ==
  LET keep == SelectSeq(us, LAMBDA u :
                  getMachineFunction(getCaller(u)) \notin visited
                  /\ ~hasPreserveNoneAttr(getCaller(u)))
  IN [i \in 1..Len(keep) |-> getMachineFunction(getCaller(keep[i]))]

Permuted(s, p) == [i \in 1..Len(s) |-> s[p[i]]]


\* ------------------------------------------------------- the Registry File
\* Number of operations on the pass objects (runOnMachineFunction calls and
\* destructions) made by all the processes together.
MaxCalls == 3

Procs == {"p1", "p2", "p3"}
NoProc == "none"
\* No Function: what cur and lastFn hold outside and before any call.
NoFn == [name |-> <<>>, isDeclaration |-> TRUE, preserveNone |-> FALSE]

\* Bytes of the file: letters of names and the white space StringRef::trim strips.
NL == "LF"
CR == "CR"
SP == "SP"
Whitespace == {SP, "TAB", NL, "VT", "FF", CR}

\* The Functions of a process's module: a definition that carries the
\* attribute when the hook first sees it, one that does not, and a declaration.
RegFuncs == {
  [name |-> <<"f">>, isDeclaration |-> FALSE, preserveNone |-> TRUE],
  [name |-> <<"g">>, isDeclaration |-> FALSE, preserveNone |-> FALSE],
  [name |-> <<"h">>, isDeclaration |-> TRUE,  preserveNone |-> FALSE] }
Names == { F.name : F \in RegFuncs }

\* What the registry path names before any process runs: nothing, an empty
\* file, a file left by earlier runs (a padded CRLF line and a blank line),
\* or a directory.
InitialPaths == {
  [kind |-> "absent",    bytes |-> <<>>],
  [kind |-> "regular",   bytes |-> <<>>],
  [kind |-> "regular",   bytes |-> <<SP, "h", CR, NL, NL>>],
  [kind |-> "directory", bytes |-> <<>>] }

Range(s) == { s[i] : i \in 1..Len(s) }

\* StringRef::split(lines, "\n"): the pieces between separators, empty ones kept.
RECURSIVE split(_)
split(s) ==
  IF NL \notin Range(s) THEN <<s>>
  ELSE LET i == CHOOSE k \in 1..Len(s) : s[k] = NL /\ \A j \in 1..(k - 1) : s[j] # NL
       IN <<SubSeq(s, 1, i - 1)>> \o split(SubSeq(s, i + 1, Len(s)))

\* StringRef::trim(): white space dropped at both ends.
RECURSIVE ltrim(_)
ltrim(s) == IF s # <<>> /\ Head(s) \in Whitespace THEN ltrim(Tail(s)) ELSE s
RECURSIVE rtrim(_)
rtrim(s) ==
  IF s # <<>> /\ s[Len(s)] \in Whitespace THEN rtrim(SubSeq(s, 1, Len(s) - 1)) ELSE s
trim(s) == rtrim(ltrim(s))

\* Lines 267-272: the names the Loader inserts from the bytes it read.
loadedNames(bytes) ==
  { trim(l) : l \in Range(split(bytes)) } \ {<<>>}

\* fds << MF.getName() << "\n"
lineOf(F) == F.name \o <<NL>>

\* The descriptor open(2) hands out: the lowest one not open (0, 1, 2 are taken).
newFd(open) ==
  CHOOSE n \in 3..(3 + Cardinality(open)) :
    n \notin open /\ \A m \in 3..(n - 1) : m \in open

\* History kept of a process's first Loader attempt: the set it left, whether
\* the file was read, whether every Writer call had returned by then, and the
\* names Writer calls had written by then.
NotTried == [tried |-> FALSE, set |-> {}, read |-> FALSE, quiet |-> FALSE, written |-> {}]

namesWritten == { n \in Names : \E p \in Procs : linesBy[p][n] > 0 }

\* ----------------------------------------------------------------- Init
QuietRegistry ==
  /\ pathKind = "absent"
  /\ file = <<>>
  /\ file0 = <<>>
  /\ lockOwner = NoProc
  /\ opt = [p \in Procs |-> [write |-> FALSE, load |-> FALSE]]
  /\ FuncNameSet = [p \in Procs |-> {}]
  /\ FD = [p \in Procs |-> 0]
  /\ fdAssigned = [p \in Procs |-> FALSE]
  /\ openFds = [p \in Procs |-> {}]
  /\ fattr = [p \in Procs |-> {}]
  /\ wpc = [p \in Procs |-> "idle"]
  /\ cur = [p \in Procs |-> NoFn]
  /\ buf = [p \in Procs |-> <<>>]
  /\ pendingRet = [p \in Procs |-> FALSE]
  /\ calls = [p \in Procs |-> 0]
  /\ torn = [p \in Procs |-> "live"]
  /\ lastFn = [p \in Procs |-> NoFn]
  /\ lastRet = [p \in Procs |-> FALSE]
  /\ lastDup = [p \in Procs |-> FALSE]
  /\ lastWrote = [p \in Procs |-> 0]
  /\ linesBy = [p \in Procs |-> [n \in Names |-> 0]]
  /\ callsFor = [p \in Procs |-> [n \in Names |-> 0]]
  /\ loads = [p \in Procs |-> 0]
  /\ setAtLoad = [p \in Procs |-> NotTried]

\* --------------------------------------------------------------- Init
InitModule ==
  \E sa \in 1..Len(ShapeSeq) : \E sb \in sa..Len(ShapeSeq) : \E sc \in sb..Len(ShapeSeq) :
    LET sh == <<sa, sb, sc>>
        shape(F) == ShapeSeq[sh[CHOOSE i \in 1..Len(FuncSeq) : FuncSeq[i] = F]]
    IN /\ fn = [F \in Funcs |->
                 [isDeclaration |-> shape(F).isDeclaration,
                  linkage |-> shape(F).linkage,
                  hasMF |-> shape(F).hasMF]]
       /\ attr = [F \in Funcs |-> shape(F).seed]
       /\ \E ul \in UseLists :
            /\ uses = [i \in 1..Len(ul) |-> UseRec(ul[i])]
            \* only a Function with a body holds instructions
            /\ \A i \in 1..Len(ul) : ~shape(UseRec(ul[i]).in).isDeclaration

InitEngine ==
  /\ ipc = "idle"
  /\ MFWorkList = <<>>
  /\ VisitedMF = {}
  /\ NumPreserveNoneInfected = 0
  /\ iret = FALSE
  /\ runs = 0
  /\ entryAttr = attr
  /\ ranLoop = FALSE
  /\ visits = [F \in Funcs |-> 0]

InitInfect ==
  /\ InitModule
  /\ PreserveNoneInfect \in BOOLEAN
  /\ InitEngine
  /\ QuietRegistry

\* ------------------------------------------------- runOnModule, lines 112-148
\* Entry of a run: the option test, then the loop that collects the seeds.  The
\* order of the Functions in the module is an input, drawn here.
RunEntry ==
  /\ ipc \in {"idle", "done"}
  /\ runs < MaxRuns
  /\ runs' = runs + 1
  /\ entryAttr' = attr
  /\ visits' = [F \in Funcs |-> 0]
  /\ VisitedMF' = {}
  /\ IF ~PreserveNoneInfect
     THEN /\ ipc' = "done"
          /\ iret' = FALSE
          /\ ranLoop' = FALSE
          /\ MFWorkList' = <<>>
     ELSE /\ ipc' = "loop"
          /\ iret' = FALSE
          /\ ranLoop' = TRUE
          /\ LET seeds == { F \in Funcs : getMachineFunction(F) # NullMF
                                           /\ hasPreserveNoneAttr(F) }
             IN \E order \in Perms(Len(FuncSeq)) :
                  MFWorkList' = SelectSeq(Permuted(FuncSeq, order),
                                          LAMBDA F : F \in seeds)
  /\ UNCHANGED <<fn, attr, uses, PreserveNoneInfect, NumPreserveNoneInfected>>
  /\ UNCHANGED rvars

\* ------------------------------------------------- runOnModule, lines 150-183
\* One iteration of the worklist loop.
LoopIter ==
  /\ ipc = "loop"
  /\ MFWorkList # <<>>
  /\ LET MF == Head(MFWorkList)
         rest == Tail(MFWorkList)
     IN IF MF = NullMF
        THEN \* line 152: MF->getFunction() through a null pointer
             /\ ipc' = "abort"
             /\ UNCHANGED <<attr, MFWorkList, VisitedMF, NumPreserveNoneInfected,
                            visits>>
        ELSE IF MF \in VisitedMF
        THEN /\ MFWorkList' = rest
             /\ UNCHANGED <<attr, ipc, VisitedMF, NumPreserveNoneInfected, visits>>
        ELSE IF stopsAt(MF)
        THEN /\ MFWorkList' = rest
             /\ VisitedMF' = VisitedMF \cup {MF}
             /\ visits' = [visits EXCEPT ![MF] = @ + 1]
             /\ UNCHANGED <<attr, ipc, NumPreserveNoneInfected>>
        ELSE \E order \in Perms(Len(users(MF))) : \E castChecked \in BOOLEAN :
               IF castChecked /\ \E i \in 1..Len(users(MF)) : ~isaCallBase(users(MF)[i])
               THEN \* line 167: cast<CallBase> of a user that is no CallBase
                    /\ ipc' = "abort"
                    /\ UNCHANGED <<attr, MFWorkList, VisitedMF,
                                   NumPreserveNoneInfected, visits>>
               ELSE /\ VisitedMF' = VisitedMF \cup {MF}
                    /\ visits' = [visits EXCEPT ![MF] = @ + 1]
                    /\ MFWorkList' = rest \o pushed(Permuted(users(MF), order),
                                                   VisitedMF \cup {MF})
                    /\ IF ~hasPreserveNoneAttr(MF)
                       THEN /\ NumPreserveNoneInfected' = NumPreserveNoneInfected + 1
                            /\ attr' = [attr EXCEPT ![MF] = TRUE]
                       ELSE UNCHANGED <<attr, NumPreserveNoneInfected>>
                    /\ UNCHANGED ipc
  /\ UNCHANGED <<fn, uses, PreserveNoneInfect, iret, runs, entryAttr, ranLoop>>
  /\ UNCHANGED rvars

\* ------------------------------------------------- runOnModule, line 185
LoopExit ==
  /\ ipc = "loop"
  /\ MFWorkList = <<>>
  /\ ipc' = "done"
  /\ iret' = (NumPreserveNoneInfected > 0)
  /\ UNCHANGED <<fn, attr, uses, PreserveNoneInfect, MFWorkList, VisitedMF,
                 NumPreserveNoneInfected, runs, entryAttr, ranLoop, visits>>
  /\ UNCHANGED rvars

\* An empty module, never run: the engine at rest.
QuietEngine ==
  /\ fn = [F \in Funcs |-> [isDeclaration |-> TRUE, linkage |-> "external",
                             hasMF |-> FALSE]]
  /\ attr = [F \in Funcs |-> FALSE]
  /\ uses = <<>>
  /\ PreserveNoneInfect = FALSE
  /\ InitEngine

NextInfect == RunEntry \/ LoopIter \/ LoopExit

SpecInfect == InitInfect /\ [][NextInfect]_vars

\* ======================================================= X86PreserveNonePass
RECURSIVE sumOver(_, _)
sumOver(f, S) ==
  IF S = {} THEN 0 ELSE LET x == CHOOSE y \in S : TRUE IN f[x] + sumOver(f, S \ {x})

callsMade == sumOver(calls, Procs)

InitReg ==
  /\ QuietEngine
  /\ \E path \in InitialPaths :
       /\ pathKind = path.kind
       /\ file = path.bytes
       /\ file0 = path.bytes
  /\ lockOwner = NoProc
  \* p1 runs under every combination of the two path options, p2 with the
  \* write path alone, p3 with the load path alone
  /\ \E w, l \in BOOLEAN :
       opt = [p \in Procs |->
                IF p = "p1" THEN [write |-> w, load |-> l]
                ELSE IF p = "p2" THEN [write |-> TRUE, load |-> FALSE]
                ELSE [write |-> FALSE, load |-> TRUE]]
  /\ FuncNameSet = [p \in Procs |-> {}]
  /\ FD = [p \in Procs |-> 0]
  /\ fdAssigned = [p \in Procs |-> FALSE]
  /\ openFds = [p \in Procs |-> {}]
  /\ fattr = [p \in Procs |-> { F.name : F \in { G \in RegFuncs : G.preserveNone } }]
  /\ wpc = [p \in Procs |-> "idle"]
  /\ cur = [p \in Procs |-> NoFn]
  /\ buf = [p \in Procs |-> <<>>]
  /\ pendingRet = [p \in Procs |-> FALSE]
  /\ calls = [p \in Procs |-> 0]
  /\ torn = [p \in Procs |-> "live"]
  /\ lastFn = [p \in Procs |-> NoFn]
  /\ lastRet = [p \in Procs |-> FALSE]
  /\ lastDup = [p \in Procs |-> FALSE]
  /\ lastWrote = [p \in Procs |-> 0]
  /\ linesBy = [p \in Procs |-> [n \in Names |-> 0]]
  /\ callsFor = [p \in Procs |-> [n \in Names |-> 0]]
  /\ loads = [p \in Procs |-> 0]
  /\ setAtLoad = [p \in Procs |-> NotTried]

\* Mutant of lockAfterClose: a lock survives the close of the descriptor.
lockKept(p) == lockOwner

\* The lock on the file once process p has closed its descriptors: closing any
\* descriptor of the file drops every fcntl lock the process holds on it.
lockAfterClose(p) == IF lockOwner = p THEN NoProc ELSE lockOwner

\* A Writer call of process p for F returns r: the locals are destroyed (the
\* stream OS and, when it was built, the stream fds close their descriptors,
\* which drops every lock the process holds on the file).
writerReturns(p, F, r, dup, stillOpen) ==
  /\ wpc' = [wpc EXCEPT ![p] = "idle"]
  /\ cur' = [cur EXCEPT ![p] = NoFn]
  /\ openFds' = [openFds EXCEPT ![p] = stillOpen]
  /\ lockOwner' = lockAfterClose(p)
  /\ lastFn' = [lastFn EXCEPT ![p] = F]
  /\ lastRet' = [lastRet EXCEPT ![p] = r]
  /\ lastDup' = [lastDup EXCEPT ![p] = dup]
  /\ callsFor' = [callsFor EXCEPT ![p][F.name] = @ + 1]

\* Mutant of mfIsDeclaration: the tests of lines 189 and 250 never fire.
mfIsDeclarationNever(F) == FALSE

\* Lines 189 and 250: MF.getFunction().isDeclaration()
mfIsDeclaration(F) == F.isDeclaration

\* Mutant of loadSelected: the load path is tested without the else.
loadSelectedAlso(p) == opt[p].load

\* Lines 285-289: which of the two the hook calls.
writeSelected(p) == opt[p].write
loadSelected(p) == ~opt[p].write /\ opt[p].load

\* Mutant of inFuncNameSet: the test of line 192 never finds the name.
inFuncNameSetNever(p, F) == FALSE

\* Line 192: FuncNameSet.count(MF.getName())
inFuncNameSet(p, F) == F.name \in FuncNameSet[p]

\* ---------------------------------- WritePreserveNoneList, lines 188-204
\* runOnMachineFunction with the write path set: entry of the Writer up to the
\* test of the path.  FD is never initialised by the constructor: its first
\* read yields zero or not.
WriterEnter(p, F) ==
  /\ wpc[p] = "idle" /\ torn[p] = "live"
  /\ callsMade < MaxCalls
  /\ writeSelected(p)
  /\ calls' = [calls EXCEPT ![p] = @ + 1]
  /\ lastWrote' = [lastWrote EXCEPT ![p] = 0]
  /\ IF mfIsDeclaration(F)
     THEN /\ writerReturns(p, F, FALSE, FALSE, openFds[p])
          /\ UNCHANGED FuncNameSet
     ELSE IF inFuncNameSet(p, F)
     THEN /\ writerReturns(p, F, FALSE, TRUE, openFds[p])
          /\ UNCHANGED FuncNameSet
     ELSE /\ FuncNameSet' = [FuncNameSet EXCEPT ![p] = @ \cup {F.name}]
          /\ \E fdIsZero \in (IF fdAssigned[p] THEN {FD[p] = 0} ELSE BOOLEAN) :
               IF fdIsZero /\ pathKind = "directory"
               THEN writerReturns(p, F, FALSE, FALSE, openFds[p])
               ELSE /\ wpc' = [wpc EXCEPT ![p] = "open"]
                    /\ cur' = [cur EXCEPT ![p] = F]
                    /\ UNCHANGED <<openFds, lockOwner, lastFn, lastRet, lastDup,
                                   callsFor>>
  /\ UNCHANGED <<FD, fdAssigned>>
  /\ UNCHANGED <<pathKind, file, file0, opt, fattr, buf, pendingRet, linesBy,
                 loads, setAtLoad>>
  /\ UNCHANGED torn
  /\ UNCHANGED ivars

\* Mutant of openedBytes: the open truncates, as it would without OF_Append.
openedTruncated(bytes) == <<>>

\* The bytes of an existing file after it is opened with OF_Append: the open
\* is open-or-create and does not truncate.
openedBytes(bytes) == bytes

\* ---------------------------------- WritePreserveNoneList, lines 212-225
\* The stream OS opens the path, then openFileForReadWrite opens it again into
\* FD; with OF_Append both create the file when it is absent and keep its bytes.
WriterOpen(p) ==
  /\ wpc[p] = "open"
  /\ \E outcome \in {"opened", "OS fails", "FD fails"} :
       IF pathKind = "directory" \/ outcome = "OS fails"
       THEN /\ writerReturns(p, cur[p], FALSE, FALSE, openFds[p])
            /\ UNCHANGED <<pathKind, file, FD, fdAssigned>>
       ELSE /\ pathKind' = "regular"
            /\ file' = openedBytes(file)
            /\ fdAssigned' = [fdAssigned EXCEPT ![p] = TRUE]
            /\ IF outcome = "FD fails"
               THEN /\ FD' = [FD EXCEPT ![p] = -1]
                    /\ writerReturns(p, cur[p], FALSE, FALSE, openFds[p])
               ELSE LET os == newFd(openFds[p])
                        fd == newFd(openFds[p] \cup {os})
                    IN /\ FD' = [FD EXCEPT ![p] = fd]
                       /\ openFds' = [openFds EXCEPT ![p] = @ \cup {os, fd}]
                       /\ wpc' = [wpc EXCEPT ![p] = "lock"]
                       /\ UNCHANGED <<cur, lockOwner, lastFn, lastRet, lastDup,
                                      callsFor>>
  /\ UNCHANGED <<file0, opt, FuncNameSet, fattr, buf, pendingRet, calls,
                 lastWrote, linesBy, loads, setAtLoad>>
  /\ UNCHANGED torn
  /\ UNCHANGED ivars

\* ---------------------------------- WritePreserveNoneList, lines 227-232
\* fcntl(FD, F_SETLKW): waits until no other process holds the lock.
WriterLock(p) ==
  /\ wpc[p] = "lock"
  /\ lockOwner \in {NoProc, p}
  /\ lockOwner' = p
  /\ wpc' = [wpc EXCEPT ![p] = "locked"]
  /\ UNCHANGED <<pathKind, file, file0, opt, FuncNameSet, FD, fdAssigned, openFds,
                 fattr, cur,
                 buf, pendingRet, calls, lastFn, lastRet, lastDup, lastWrote,
                 linesBy, callsFor, loads, setAtLoad>>
  /\ UNCHANGED torn
  /\ UNCHANGED ivars

\* fcntl fails (EINTR, ENOLCK, EDEADLK): FD is closed, the call returns false.
WriterLockFails(p) ==
  /\ wpc[p] = "lock"
  /\ writerReturns(p, cur[p], FALSE, FALSE, {})
  /\ UNCHANGED <<FD, fdAssigned>>
  /\ UNCHANGED <<pathKind, file, file0, opt, FuncNameSet, fattr, buf, pendingRet,
                 calls, lastWrote, linesBy, loads, setAtLoad>>
  /\ UNCHANGED torn
  /\ UNCHANGED ivars

\* ---------------------------------- WritePreserveNoneList, lines 234-244
\* The line goes into the buffer of the stream fds (a raw_fd_ostream on a
\* regular file is buffered); then the lock is released, or the release fails.
WriterUnlock(p) ==
  /\ wpc[p] = "locked"
  /\ buf' = [buf EXCEPT ![p] = lineOf(cur[p])]
  /\ \E unlocked \in BOOLEAN :
       /\ lockOwner' = IF unlocked THEN NoProc ELSE lockOwner
       /\ pendingRet' = [pendingRet EXCEPT ![p] = unlocked]
  /\ wpc' = [wpc EXCEPT ![p] = "flush"]
  /\ UNCHANGED <<pathKind, file, file0, opt, FuncNameSet, FD, fdAssigned, openFds,
                 fattr, cur,
                 calls, lastFn, lastRet, lastDup, lastWrote, linesBy, callsFor,
                 loads, setAtLoad>>
  /\ UNCHANGED torn
  /\ UNCHANGED ivars

\* ---------------------------------- WritePreserveNoneList, line 245
\* The destructor of fds at the return: the buffer is flushed by write(2) calls
\* on the O_APPEND descriptor, each taking some or all of what is left.
WriterFlush(p) ==
  /\ wpc[p] = "flush"
  /\ buf[p] # <<>>
  /\ \E k \in 1..Len(buf[p]) :
       /\ file' = file \o SubSeq(buf[p], 1, k)
       /\ buf' = [buf EXCEPT ![p] = SubSeq(@, k + 1, Len(@))]
       /\ lastWrote' = [lastWrote EXCEPT ![p] = @ + k]
  /\ linesBy' = IF lastWrote[p] = 0
                THEN [linesBy EXCEPT ![p][cur[p].name] = @ + 1]
                ELSE linesBy
  /\ UNCHANGED <<pathKind, file0, lockOwner, opt, FuncNameSet, FD, fdAssigned, openFds,
                 fattr, wpc, cur, pendingRet, calls, lastFn, lastRet, lastDup, callsFor,
                 loads, setAtLoad>>
  /\ UNCHANGED torn
  /\ UNCHANGED ivars

\* The buffer is empty: fds closes FD (shouldClose), OS closes its descriptor,
\* the call returns.  FD keeps the number of the closed descriptor.
WriterReturn(p) ==
  /\ wpc[p] = "flush"
  /\ buf[p] = <<>>
  /\ writerReturns(p, cur[p], pendingRet[p], FALSE, {})
  /\ UNCHANGED <<FD, fdAssigned>>
  /\ UNCHANGED <<pathKind, file, file0, opt, FuncNameSet, fattr, buf, pendingRet,
                 calls, lastWrote, linesBy, loads, setAtLoad>>
  /\ UNCHANGED torn
  /\ UNCHANGED ivars

\* Mutant of nameInSet: the membership test of line 274 always succeeds.
nameInSetAlways(F, set) == TRUE

\* Line 274: FuncNameSet.count(MF.getName())
nameInSet(F, set) == F.name \in set

\* ---------------------------------- LoadPreserveNoneList, lines 247-279
\* runOnMachineFunction with the load path set and the write path unset.
Loader(p, F) ==
  /\ wpc[p] = "idle" /\ torn[p] = "live"
  /\ callsMade < MaxCalls
  /\ loadSelected(p)
  /\ calls' = [calls EXCEPT ![p] = @ + 1]
  /\ lastFn' = [lastFn EXCEPT ![p] = F]
  /\ lastDup' = [lastDup EXCEPT ![p] = FALSE]
  /\ lastWrote' = [lastWrote EXCEPT ![p] = 0]
  /\ IF mfIsDeclaration(F)
     THEN /\ lastRet' = [lastRet EXCEPT ![p] = FALSE]
          /\ UNCHANGED <<FuncNameSet, fattr, loads, setAtLoad>>
     ELSE \E readable \in BOOLEAN :
            LET attempt == FuncNameSet[p] = {}
                found == pathKind = "regular"
                set == IF attempt /\ found /\ readable
                       THEN loadedNames(file)
                       ELSE FuncNameSet[p]
                gaveUp == attempt /\ (~found \/ ~readable)
                hit == ~gaveUp /\ nameInSet(F, set)
            IN /\ FuncNameSet' = [FuncNameSet EXCEPT ![p] = set]
               /\ loads' = [loads EXCEPT ![p] = IF attempt THEN @ + 1 ELSE @]
               /\ setAtLoad' = [setAtLoad EXCEPT ![p] =
                                  IF attempt /\ ~@.tried
                                  THEN [tried |-> TRUE, set |-> set,
                                        read |-> found /\ readable,
                                        quiet |-> \A q \in Procs : wpc[q] = "idle",
                                        written |-> namesWritten]
                                  ELSE @]
               /\ fattr' = [fattr EXCEPT ![p] = IF hit THEN @ \cup {F.name} ELSE @]
               /\ lastRet' = [lastRet EXCEPT ![p] = hit]
  /\ UNCHANGED <<pathKind, file, file0, lockOwner, opt, FD, fdAssigned, openFds, wpc,
                 cur, buf,
                 pendingRet, linesBy, callsFor>>
  /\ UNCHANGED torn
  /\ UNCHANGED ivars

\* ---------------------------------- runOnMachineFunction, lines 285-292
\* Neither path option is set: the hook returns false.
HookOff(p, F) ==
  /\ wpc[p] = "idle" /\ torn[p] = "live"
  /\ callsMade < MaxCalls
  /\ ~writeSelected(p) /\ ~loadSelected(p)
  /\ calls' = [calls EXCEPT ![p] = @ + 1]
  /\ lastFn' = [lastFn EXCEPT ![p] = F]
  /\ lastRet' = [lastRet EXCEPT ![p] = FALSE]
  /\ lastDup' = [lastDup EXCEPT ![p] = FALSE]
  /\ lastWrote' = [lastWrote EXCEPT ![p] = 0]
  /\ UNCHANGED <<pathKind, file, file0, lockOwner, opt, FuncNameSet, FD, fdAssigned,
                 openFds, fattr, wpc, cur, buf, pendingRet, linesBy, callsFor, loads,
                 setAtLoad>>
  /\ UNCHANGED torn
  /\ UNCHANGED ivars

\* ---------------------------------- ~X86PreserveNonePass, lines 59-62
\* The pass object is destroyed: close(FD) unless FD reads zero.  FD is read
\* uninitialised when no Writer call assigned it.
Teardown(p) ==
  /\ wpc[p] = "idle" /\ torn[p] = "live"
  /\ callsMade < MaxCalls
  /\ calls' = [calls EXCEPT ![p] = @ + 1]
  /\ \E fdIsZero \in (IF fdAssigned[p] THEN {FD[p] = 0} ELSE BOOLEAN) :
       IF fdIsZero
       THEN /\ torn' = [torn EXCEPT ![p] = "no close"]
            /\ UNCHANGED openFds
       ELSE IF fdAssigned[p] /\ FD[p] \in openFds[p]
       THEN /\ torn' = [torn EXCEPT ![p] = "closed open"]
            /\ openFds' = [openFds EXCEPT ![p] = @ \ {FD[p]}]
       ELSE /\ torn' = [torn EXCEPT ![p] = "closed not open"]
            /\ UNCHANGED openFds
  /\ UNCHANGED <<pathKind, file, file0, lockOwner, opt, FuncNameSet, FD, fdAssigned,
                 fattr, wpc, cur, buf, pendingRet, lastFn, lastRet, lastDup, lastWrote,
                 linesBy, callsFor, loads, setAtLoad>>
  /\ UNCHANGED ivars

\* Lines 281-293: the Writer when the write path is set, else the Loader when
\* the load path is set, else nothing.
runOnMachineFunction(p, F) == WriterEnter(p, F) \/ Loader(p, F) \/ HookOff(p, F)

NextReg ==
  \E p \in Procs :
    \/ \E F \in RegFuncs : runOnMachineFunction(p, F)
    \/ WriterOpen(p)
    \/ WriterLock(p)
    \/ WriterLockFails(p)
    \/ WriterUnlock(p)
    \/ WriterFlush(p)
    \/ WriterReturn(p)
    \/ Teardown(p)

SpecReg == InitReg /\ [][NextReg]_vars

\* A Writer call that can take its next step takes it: a process inside the
\* call keeps running, and fcntl(F_SETLKW) returns once the lock is free.
WriterStep(p) ==
  WriterOpen(p) \/ WriterLock(p) \/ WriterUnlock(p) \/ WriterFlush(p) \/ WriterReturn(p)

SpecRegFair == SpecReg /\ \A p \in Procs : WF_vars(WriterStep(p))

\* ============================================================ the two passes
\* The module pass and the per-function pass are separate passes: a behaviour
\* of the core is a run of the engine on a module, with no registry path set,
\* or a run of the processes that share a registry file.
engineUnderTest == \A p \in Procs : ~opt[p].write /\ ~opt[p].load

InitCore == InitInfect \/ InitReg

NextCore ==
  \/ engineUnderTest /\ NextInfect
  \/ ~engineUnderTest /\ NextReg

SpecCore == InitCore /\ [][NextCore]_vars

\* ====================================================== the engine's claims
\* The Functions the current run has given the attribute.
newlyInfected == { F \in Funcs : attr[F] /\ ~entryAttr[F] }

\* The eligibility the design asks for, read off the module alone.
infectable(F) == fn[F].linkage = "internal" /\ ~fn[F].isDeclaration
allUsesAreDirectCalls(F) ==
  \A i \in 1..Len(uses) : uses[i].callee = F => uses[i].kind = "callee"
eligible(F) == infectable(F) /\ allUsesAreDirectCalls(F)

\* F holds a call instruction whose callee is G.
callsDirectly(F, G) ==
  \E i \in 1..Len(uses) : uses[i] = [callee |-> G, kind |-> "callee", in |-> F]

\* The Functions tied to S by a chain of direct calls through eligible Functions.
RECURSIVE chainedTo(_, _)
chainedTo(S, n) ==
  IF n = 0 THEN S
  ELSE chainedTo(S \cup { F \in Funcs : eligible(F) /\ \E G \in S : callsDirectly(F, G) },
                 n - 1)
callersOf(S) == chainedTo(S, Cardinality(Funcs))

\* C1: every Function a run newly gives the attribute is infectable and is used
\* only as the direct callee of call instructions.
C1_InfectionSound ==
  \A F \in newlyInfected : infectable(F) /\ allUsesAreDirectCalls(F)

\* C2 as stated: when a run finishes, every Function tied by a chain of direct
\* calls through eligible Functions to a Function attributed at entry has the
\* attribute.
C2_CompleteFromAnySeed ==
  (ipc = "done" /\ ranLoop) =>
     \A F \in callersOf({ S \in Funcs : entryAttr[S] }) : attr[F]

\* C2 as amended: the same, for the chains that end in a Function attributed at
\* entry that has a MachineFunction.
C2_CompleteFromCompiledSeed ==
  (ipc = "done" /\ ranLoop) =>
     \A F \in callersOf({ S \in Funcs : entryAttr[S] /\ fn[S].hasMF }) : attr[F]

\* A finished run that infected a caller of a seed and a caller of that caller.
C2_Witness ==
  /\ ipc = "done" /\ ranLoop
  /\ \E S, F, G \in Funcs :
       /\ entryAttr[S] /\ fn[S].hasMF
       /\ callsDirectly(F, S) /\ callsDirectly(G, F)
       /\ {F, G} \subseteq newlyInfected

\* C3: a run that has started always has a step left until it has emptied the
\* worklist and returned, and no Function passes the visited check twice in a
\* run.
C3_Termination ==
  /\ ipc \in {"idle", "done"} \/ ENABLED NextInfect
  /\ \A F \in Funcs : visits[F] <= 1

\* C4: a run returns true exactly when it newly infected a Function.
C4_ReturnsNewInfection ==
  ipc = "done" => (iret <=> newlyInfected # {})

\* C12: no run of the engine reaches an aborting state (a cast<CallBase> of a
\* user that is no call, a dereference of a null MachineFunction).
C12_NoFatalCondition == ipc # "abort"

\* The Functions that carried the attribute when the current run began.
seedsAtEntry == { F \in Funcs : entryAttr[F] }

\* C17: every Function a run newly infects holds a call instruction whose
\* callee is a Function attributed at entry or newly infected by the same run.
C17_InfectsCallersOnly ==
  \A F \in newlyInfected :
    \E G \in seedsAtEntry \cup newlyInfected : callsDirectly(F, G)

\* ==================================================== the registry's claims
allIdle == \A p \in Procs : wpc[p] = "idle"

count(x, s) == Cardinality({ i \in 1..Len(s) : s[i] = x })

linesWritten(l) == IF l \in Names THEN sumOver([p \in Procs |-> linesBy[p][l]], Procs) ELSE 0

\* C5: when writers that each appended a distinct name have all returned, the
\* file holds the lines it held at first and one whole line per name appended.
C5_NoLostOrMixedLine ==
  (allIdle /\ \A n \in Names : linesWritten(n) <= 1) =>
     \A l \in Range(split(file)) \cup Names :
        count(l, split(file)) = count(l, split(file0)) + linesWritten(l)

\* C6: bytes reach the file only from a process that holds the lock.
C6_WriteUnderLock ==
  [][\A p \in Procs : lastWrote'[p] > lastWrote[p] => lockOwner = p]_vars

\* C7 as stated: Writer calls made twice or more for the same definition in one
\* process append exactly one line for it.
C7_ExactlyOneLine ==
  \A p \in Procs : \A n \in Names :
    (wpc[p] = "idle" /\ callsFor[p][n] >= 2
       /\ \E F \in RegFuncs : F.name = n /\ ~F.isDeclaration)
    => linesBy[p][n] = 1

\* C7 as amended: Writer calls of one process for the same name append at most
\* one line for it, exactly one when a call returned true; a call made for a
\* name already in the set appends nothing and returns false.
C7_AtMostOneLine ==
  \A p \in Procs :
    /\ \A n \in Names : linesBy[p][n] <= 1
    /\ (opt[p].write /\ wpc[p] = "idle" /\ lastFn[p] # NoFn) =>
         /\ lastDup[p] => (lastRet[p] = FALSE /\ lastWrote[p] = 0)
         /\ lastRet[p] = TRUE => linesBy[p][lastFn[p].name] = 1

\* A second Writer call for a name whose first call appended its line.
C7_Witness ==
  \E p \in Procs :
    /\ wpc[p] = "idle" /\ lastDup[p]
    /\ callsFor[p][lastFn[p].name] = 2
    /\ linesBy[p][lastFn[p].name] = 1

\* C8: a Loader with fresh state that reads the file after Writer calls, all
\* returned, wrote a set of names to a file that began empty or absent ends
\* with exactly that set.
C8_RoundTrip ==
  \A p \in Procs :
    (setAtLoad[p].tried /\ setAtLoad[p].read /\ setAtLoad[p].quiet /\ file0 = <<>>)
    => setAtLoad[p].set = setAtLoad[p].written

\* C9: a process reads the registry path in its first Loader call at most, and
\* its Name Set stays what that call left.
C9_LoadOnce ==
  \A p \in Procs :
    /\ loads[p] <= 1
    /\ (setAtLoad[p].tried /\ ~opt[p].write) => FuncNameSet[p] = setAtLoad[p].set

\* C10: a Writer call returns true exactly when it appended its line, and a
\* call that returns false put no byte in the file.
C10_WriterResult ==
  \A p \in Procs :
    (opt[p].write /\ wpc[p] = "idle" /\ lastFn[p] # NoFn) =>
       /\ lastRet[p] = TRUE <=> lastWrote[p] = Len(lineOf(lastFn[p]))
       /\ lastRet[p] = FALSE => lastWrote[p] = 0

\* C11: a process opens the Writer's handle once at most, keeps it open until
\* the pass object is destroyed, and the destructor closes no descriptor that
\* is not open.
C11_HandleLifecycle ==
  [][\A p \in Procs :
       /\ (openFds'[p] # openFds[p] /\ openFds'[p] # {}) => ~fdAssigned[p]
       /\ (openFds[p] # {} /\ torn'[p] = "live") => openFds'[p] = openFds[p]
       /\ torn'[p] # "closed not open"]_vars

\* A step of a hook invocation of process p: its entry, or a later step of the
\* Writer call it made.
hookActs(p) == (calls'[p] # calls[p] /\ torn'[p] = torn[p]) \/ wpc[p] # "idle"

\* C13: a hook invocation with the write path set runs the Writer and leaves
\* the Function's attributes and the Loader's state alone, also when the load
\* path is set; with the load path alone it runs the Loader and does not open,
\* lock or change the file; with neither it returns false and changes neither
\* the Function, the Name Set nor the file.
C13_ModeSelection ==
  [][\A p \in Procs : hookActs(p) =>
       /\ opt[p].write =>
            /\ wpc[p] = "idle" => (wpc'[p] = "open" \/ callsFor'[p] # callsFor[p])
            /\ fattr'[p] = fattr[p]
            /\ loads'[p] = loads[p] /\ setAtLoad'[p] = setAtLoad[p]
       /\ (~opt[p].write /\ opt[p].load) =>
            /\ wpc'[p] = "idle" /\ callsFor'[p] = callsFor[p]
            /\ file' = file /\ pathKind' = pathKind
            /\ lockOwner' = lockOwner /\ openFds'[p] = openFds[p]
       /\ (~opt[p].write /\ ~opt[p].load) =>
            /\ lastRet'[p] = FALSE
            /\ wpc'[p] = "idle" /\ callsFor'[p] = callsFor[p]
            /\ loads'[p] = loads[p]
            /\ fattr'[p] = fattr[p] /\ FuncNameSet'[p] = FuncNameSet[p]
            /\ file' = file /\ pathKind' = pathKind
            /\ lockOwner' = lockOwner /\ openFds'[p] = openFds[p]]_vars

\* A process with both paths set whose Writer call appended a line, and a
\* process with the load path alone whose Loader call gave g the attribute.
C13_Witness ==
  /\ opt["p1"].write /\ opt["p1"].load
  /\ wpc["p1"] = "idle" /\ lastFn["p1"] # NoFn /\ lastRet["p1"]
  /\ lastFn["p3"] # NoFn /\ lastRet["p3"] /\ <<"g">> \in fattr["p3"]

isPrefix(s, t) == Len(s) <= Len(t) /\ SubSeq(t, 1, Len(s)) = s

\* C14: the content of the Registry File before a step is a prefix of its
\* content after the step.
C14_AppendOnly == [][isPrefix(file, file')]_vars

\* Two Writer calls have appended a line each to a file that held bytes at first.
C14_Witness ==
  /\ file0 # <<>>
  /\ Len(file) >= Len(file0) + 4
  /\ allIdle

\* The step is a Loader invocation of process p.
loaderCall(p) ==
  ~opt[p].write /\ opt[p].load /\ calls'[p] # calls[p] /\ torn'[p] = torn[p]

\* C15: a Loader invocation for a definition F returns true and leaves F with
\* the attribute exactly when F's name is in the process's Name Set after the
\* call; when it is not, F's attributes are unchanged and the call returns false.
C15_LoaderApplies ==
  [][\A p \in Procs : (loaderCall(p) /\ ~lastFn'[p].isDeclaration) =>
       LET name == lastFn'[p].name
       IN /\ lastRet'[p] <=> name \in FuncNameSet'[p]
          /\ fattr'[p] = IF name \in FuncNameSet'[p]
                         THEN fattr[p] \cup {name}
                         ELSE fattr[p]]_vars

\* A load-only process after its second hook invocation: the Loader read the
\* file once and has given g, named in it, the attribute.
C15_Witness ==
  /\ calls["p3"] = 2 /\ loads["p3"] = 1 /\ torn["p3"] = "live"
  /\ lastFn["p3"].name = <<"g">> /\ lastRet["p3"]
  /\ <<"g">> \in fattr["p3"]

\* C16: a Writer call puts bytes in the file only for a Function that carries
\* the attribute.
C16_AttributedOnly ==
  \A p \in Procs : \A n \in Names : linesBy[p][n] > 0 => n \in fattr[p]

\* C19: once a Writer call has returned, every name in the process's
\* FuncNameSet is a line of the file.
C19_SetBehindFile ==
  \A p \in Procs :
    (opt[p].write /\ wpc[p] = "idle") =>
       \A n \in FuncNameSet[p] : n \in Range(split(file))

\* A process that is not inside a Writer call holds no lock on the file, and a
\* process gets the lock only when no process holds it.
lockReleasedAtReturn ==
  /\ [](\A p \in Procs : wpc[p] = "idle" => lockOwner # p)
  /\ [][\A p \in Procs : (lockOwner' = p /\ lockOwner # p) => lockOwner = NoProc]_vars

\* Process p waits in fcntl(F_SETLKW) for a lock another process holds.
blocked(p) == wpc[p] = "lock" /\ lockOwner \notin {NoProc, p}

\* C18 as stated: no lock is held after a Writer call returns, one process at
\* most holds the lock, and a writer that waits for the lock gets it.
C18_BlockedWriterAcquires ==
  /\ lockReleasedAtReturn
  /\ \A p \in Procs : blocked(p) ~> (wpc[p] = "locked")

\* C18 as amended: the same, where a writer that waits for the lock gets it or
\* has its lock request fail.
C18_BlockedWriterProceeds ==
  /\ lockReleasedAtReturn
  /\ \A p \in Procs : blocked(p) ~> (wpc[p] # "lock")

\* p1 has returned from a Writer call whose unlock failed, and p2 has the lock.
C18_Witness ==
  /\ wpc["p1"] = "idle" /\ lastFn["p1"] # NoFn
  /\ ~lastRet["p1"] /\ lastWrote["p1"] > 0
  /\ lockOwner = "p2"

\* C20: a Function without a body is never on the engine's worklist and keeps
\* the attributes it had; the Loader gives no declaration the attribute, and
\* the Writer writes no byte for one and does not put its name in its set.
C20_DeclarationsLeftAlone ==
  /\ \A F \in Funcs : fn[F].isDeclaration =>
        /\ F \notin Range(MFWorkList)
        /\ attr[F] = entryAttr[F]
  /\ \A p \in Procs : \A F \in RegFuncs : F.isDeclaration =>
        /\ F.name \in fattr[p] <=> F.preserveNone
        /\ linesBy[p][F.name] = 0
        /\ opt[p].write => F.name \notin FuncNameSet[p]

\* The Loader has been called for the declaration h by a process whose Name
\* Set, read from the file, holds h.
C20_Witness ==
  /\ ~opt["p3"].write /\ opt["p3"].load
  /\ lastFn["p3"].name = <<"h">> /\ lastFn["p3"].isDeclaration
  /\ <<"h">> \in FuncNameSet["p3"]

====
